---- MODULE Spec2Model ----
(***************************************************************************)
(* Model of app.py of the LINCS gene query tool: validate_gene_name and    *)
(* lincs_cp (argument validation, the bounded retry loop around            *)
(* requests.get, decoding and checking of the response, numeric coercion,  *)
(* sort by CD Coefficient and truncation to top_n).                        *)
(*                                                                         *)
(* Strings are sequences of characters; a character is named by a short    *)
(* string.  Numbers of the CD Coefficient column are integers (the values  *)
(* of the source scaled by 100).                                           *)
(***************************************************************************)
EXTENDS Integers, Sequences, FiniteSets, TLC

VARIABLES
    gene,        \* argument gene of the call
    direction,   \* argument direction of the call
    top_n,       \* argument top_n of the call
    pc,          \* position of the call in lincs_cp / validate_gene_name
    valid,       \* value returned by validate_gene_name(gene), FALSE before the call
    attempt,     \* loop variable of "for attempt in range(max_retries)"
    retry_delay, \* local retry_delay
    fetches,     \* number of requests.get calls made so far
    waits,       \* durations passed to time.sleep, in order
    fails,       \* kinds of the retryable failures caught so far, in order
    retry_warnings, \* number of st.warning retry messages emitted
    events,      \* what the call did, in order: "get_<outcome>" and "sleep"
    resp,        \* the response r bound by the loop, NoResp before
    returned,    \* "pending", "None", "DataFrame", or "raised" (an exception left the call)
    rows,        \* rows of the returned DataFrame, in order
    err,         \* the st.error message shown by an except handler, NoErr if none
    page         \* the page's query handler: its position, the two checkboxes,
                 \* the results map, the calls of lincs_cp it has made, its message

vars == <<gene, direction, top_n, pc, valid, attempt, retry_delay, fetches,
          waits, fails, retry_warnings, events, resp, returned, rows, err, page>>

----------------------------------------------------------------------------
(* Bounds of the model *)

\* longest gene string drawn for validate_gene_name
MaxLen == 3
\* longest list of records drawn as a response body
MaxRows == 3
\* longest list of records with all three numeric keys drawn as a body
MaxWide == 2

----------------------------------------------------------------------------
(* Characters and Python's str methods *)

\* "A" an ASCII letter, "7" an ASCII digit, "SP" a space, "!" punctuation,
\* "U_E9" the non-ASCII letter e-acute (str.isalnum() is true for it)
Alphabet == {"A", "7", "-", "_", "SP", "!", "U_E9"}

\* characters c with c.isalnum()
IsAlnumChar(c) == c \in {"A", "7", "U_E9"}

\* characters c with c.isspace(), the ones str.strip() removes
IsSpaceChar(c) == c \in {"SP"}

\* the character class [A-Za-z0-9_-]
IsAsciiGeneChar(c) == c \in {"A", "7", "-", "_"}

RECURSIVE LStrip(_)
LStrip(s) ==
    IF s = <<>> THEN s
    ELSE IF IsSpaceChar(Head(s)) THEN LStrip(Tail(s)) ELSE s

RECURSIVE RStrip(_)
RStrip(s) ==
    IF s = <<>> THEN s
    ELSE IF IsSpaceChar(s[Len(s)]) THEN RStrip(SubSeq(s, 1, Len(s) - 1)) ELSE s

\* s.strip()
Strip(s) == RStrip(LStrip(s))

\* s.replace(c, '')
Replace(s, c) == SelectSeq(s, LAMBDA x : x # c)

\* a test that one alphanumeric character is enough
StrIsalnumAny(s) == \E i \in 1..Len(s) : IsAlnumChar(s[i])

\* s.isalnum(): false for the empty string
StrIsalnum(s) == Len(s) > 0 /\ \A i \in 1..Len(s) : IsAlnumChar(s[i])

\* Values of the argument gene: a str, None, or a non-str object (an int)
StrGene(s) == [type |-> "str", s |-> s]
NoneGene == [type |-> "NoneType", s |-> <<>>]
IntGene == [type |-> "int", s |-> <<>>]

\* "not gene"
Falsy(g) == g.type = "NoneType" \/ (g.type = "str" /\ g.s = <<>>)

validate_gene_name(g) ==
    IF Falsy(g) \/ g.type # "str" THEN FALSE
    ELSE LET t == Strip(g.s)
         IN  Len(t) > 0 /\ StrIsalnum(Replace(Replace(t, "-"), "_"))

----------------------------------------------------------------------------
(* Arguments of lincs_cp *)

\* Values of the argument top_n: an int, or a non-int number (a float)
IntTopN(n) == [isInt |-> TRUE, v |-> n]
FloatTopN(n) == [isInt |-> FALSE, v |-> n]

\* "TP53", " A", "TP53!", "-", "", None
GeneInputs ==
    {StrGene(<<"A", "7">>), StrGene(<<"SP", "A">>), StrGene(<<"A", "7", "!">>),
     StrGene(<<"-">>), StrGene(<<>>), NoneGene}

DirectionInputs == {"up", "down", "sideways"}

TopNInputs == {IntTopN(-1), IntTopN(0), IntTopN(1), IntTopN(2), IntTopN(5), FloatTopN(2)}

\* the genes validate_gene_name is applied to on its own
AllGenes ==
    {StrGene(s) : s \in UNION {[1..k -> Alphabet] : k \in 0..MaxLen}}
        \cup {NoneGene, IntGene}

----------------------------------------------------------------------------
(* Responses *)

\* status codes a completed attempt can carry
Statuses == {200, 304, 403, 404, 500, 503}

\* Response.raise_for_status() raises HTTPError for 4xx and 5xx
raise_for_status(s) == 400 <= s /\ s < 600

\* A value of a numeric key of one record of the body: a number, a string
\* that parses as a number, a string that does not, or no such key
Num(v) == [kind |-> "num", v |-> v]
NumStr(v) == [kind |-> "numstr", v |-> v]
Bad == [kind |-> "bad", v |-> 0]
Absent == [kind |-> "absent", v |-> 0]

RawCells == {Num(1), Num(2), NumStr(2), Bad, Absent}

\* One record of the body: its values of the keys 'CD Coefficient' (cd),
\* 'Fold Change' (fc) and 'Log2(Fold Change)' (l2)
Record(cd, fc, l2) == [cd |-> cd, fc |-> fc, l2 |-> l2]

\* a record with no numeric key but 'CD Coefficient'
CdRecord(c) == Record(c, Absent, Absent)

CdRecords == {CdRecord(c) : c \in RawCells}

\* records with the three keys, each key with numeric and non-numeric values
WideRecords ==
    {Record(Num(1), Num(3), NumStr(4)), Record(Bad, Num(3), Bad),
     Record(Num(1), Bad, NumStr(4)), Record(Bad, Absent, Bad),
     Record(Num(1), Absent, NumStr(4)), Record(Num(1), Bad, Bad)}

\* CD Coefficients 0.1, 0.9, -0.2, 0.5, 0.3, 0.7, missing, 0.05 (times 100)
ScenarioCd ==
    <<Num(10), Num(90), Num(-20), Num(50), Num(30), Num(70), Bad, Num(5)>>

ScenarioData == [i \in 1..Len(ScenarioCd) |-> CdRecord(ScenarioCd[i])]

\* what r.json() gives: it raises ("undecodable"), or returns a value that is
\* falsy and no list, a falsy list, a truthy non-list, or a list of records
FalsyNonList == {"null", "false", "zero", "emptystr", "emptyobj"}
TruthyNonList == {"object", "number", "string", "true"}

JsonBody(k) == [json |-> k, data |-> <<>>]
ListBody(d) == [json |-> "list", data |-> d]

Bodies ==
    {JsonBody(k) : k \in {"undecodable"} \cup FalsyNonList \cup TruthyNonList}
        \cup {ListBody(d) : d \in UNION {[1..k -> CdRecords] : k \in 0..MaxRows}}
        \cup {ListBody(d) : d \in UNION {[1..k -> WideRecords] : k \in 1..MaxWide}}
        \cup {ListBody(ScenarioData)}

\* a test that lets the empty list through to the checks of a list
NotData_non_list_only(b) == b.json \in FalsyNonList

\* "not data"
NotData(b) == b.json \in FalsyNonList \/ (b.json = "list" /\ b.data = <<>>)

\* "isinstance(data, list)"
IsList(b) == b.json = "list"

\* the bodies drawn for the calls made by the page
PageBodies ==
    {JsonBody("undecodable"), JsonBody("null"), JsonBody("object"),
     ListBody(<<>>), ListBody(<<CdRecord(Absent)>>), ListBody(<<CdRecord(Bad)>>),
     ListBody(<<CdRecord(Num(1)), CdRecord(Num(2))>>)}

NoResp == [status |-> 0, body |-> JsonBody("none")]
NoErr == [handler |-> "none", msg |-> "none", status |-> 0]
Error(h, m, s) == [handler |-> h, msg |-> m, status |-> s]

----------------------------------------------------------------------------
(* The table built from the body *)

\* pd.DataFrame(data): one row per record, in arrival order
DataFrame(data) ==
    [i \in 1..Len(data) |->
        [id |-> i, cd |-> data[i].cd, fc |-> data[i].fc, l2 |-> data[i].l2]]

\* col in df.columns: some record has the key
HasColumn(df, col) == \E i \in 1..Len(df) : df[i][col].kind # "absent"

\* 'CD Coefficient' in df.columns: some record has the key
HasCdColumn(data) == HasColumn(data, "cd")

\* pd.to_numeric(..., errors='coerce') on one value
to_numeric(c) ==
    IF c.kind \in {"num", "numstr"} THEN [nan |-> FALSE, v |-> c.v]
    ELSE [nan |-> TRUE, v |-> 0]

\* df[col] = pd.to_numeric(df[col], errors='coerce') if col is a column
CoerceColumn(df, i, col) ==
    IF HasColumn(df, col) THEN to_numeric(df[i][col]) ELSE df[i][col]

\* a coercion that drops the rows whose CD Coefficient is not a number
Coerce_drop_bad(df) ==
    LET all == [i \in 1..Len(df) |->
                   [id |-> df[i].id,
                    cd |-> CoerceColumn(df, i, "cd"),
                    fc |-> CoerceColumn(df, i, "fc"),
                    l2 |-> CoerceColumn(df, i, "l2")]]
    IN  SelectSeq(all, LAMBDA r : ~r.cd.nan)

\* lines 86-89: the loop over numeric_columns
Coerce(df) ==
    [i \in 1..Len(df) |->
        [id |-> df[i].id,
         cd |-> CoerceColumn(df, i, "cd"),
         fc |-> CoerceColumn(df, i, "fc"),
         l2 |-> CoerceColumn(df, i, "l2")]]

Reverse(s) == [i \in 1..Len(s) |-> s[Len(s) + 1 - i]]

\* numpy argsort(kind='quicksort') of vals: the positions in ascending order of
\* value; quicksort is not a stable sort, equal values come in any order
RECURSIVE argsort_from(_, _)
argsort_from(vals, S) ==
    IF S = {} THEN {<<>>}
    ELSE LET least == {j \in S : \A k \in S : vals[j] <= vals[k]}
         IN  UNION {{<<i>> \o r : r \in argsort_from(vals, S \ {i})} : i \in least}

argsort(vals) == argsort_from(vals, DOMAIN vals)

\* the same with the missing values placed first
nargsort_nan_first(col) ==
    LET idx         == [i \in 1..Len(col) |-> i]
        non_nan_idx == Reverse(SelectSeq(idx, LAMBDA i : ~col[i].nan))
        nan_idx     == SelectSeq(idx, LAMBDA i : col[i].nan)
        non_nans    == [i \in 1..Len(non_nan_idx) |-> col[non_nan_idx[i]].v]
    IN  {nan_idx \o Reverse([i \in 1..Len(p) |-> non_nan_idx[p[i]]]) : p \in argsort(non_nans)}

\* pandas nargsort(items, kind='quicksort', ascending=False, na_position='last')
nargsort(col) ==
    LET idx         == [i \in 1..Len(col) |-> i]
        non_nan_idx == Reverse(SelectSeq(idx, LAMBDA i : ~col[i].nan))
        nan_idx     == SelectSeq(idx, LAMBDA i : col[i].nan)
        non_nans    == [i \in 1..Len(non_nan_idx) |-> col[non_nan_idx[i]].v]
    IN  {Reverse([i \in 1..Len(p) |-> non_nan_idx[p[i]]]) \o nan_idx : p \in argsort(non_nans)}

\* df.sort_values(by="CD Coefficient", ascending=False): the possible results
sort_values(df) ==
    {[i \in 1..Len(ix) |-> df[ix[i]]] : ix \in nargsort([i \in 1..Len(df) |-> df[i].cd])}

\* df.head(n) for n > 0
head(df, n) == SubSeq(df, 1, IF n < Len(df) THEN n ELSE Len(df))

----------------------------------------------------------------------------
(* lincs_cp *)

max_retries == 3

initial_retry_delay == 2

\* a backoff that does not grow
next_retry_delay_constant(d) == d

\* retry_delay *= 2
next_retry_delay(d) == d * 2

\* the checks with the one of top_n left out
ArgumentError_no_top_n(g, d, n) ==
    IF ~validate_gene_name(g) THEN "invalid_gene_name"
    ELSE IF d \notin {"up", "down"} THEN "invalid_direction"
    ELSE "none"

\* the three checks that raise ValueError before the URL is built
ArgumentError(g, d, n) ==
    IF ~validate_gene_name(g) THEN "invalid_gene_name"
    ELSE IF d \notin {"up", "down"} THEN "invalid_direction"
    ELSE IF ~n.isInt \/ n.v <= 0 THEN "invalid_top_n"
    ELSE "none"

\* the message of the "except requests.exceptions.HTTPError" handler
http_error_message(s) ==
    IF s = 404 THEN "gene_not_found"
    ELSE IF s = 500 THEN "server_error"
    ELSE "http_error_with_code"

\* every exhaustion reported as a timeout
exhausted_message_timeout(k) == "timed_out_after_multiple_attempts"

\* the exception raised when the last attempt fails with kind k
exhausted_message(k) ==
    IF k = "Timeout" THEN "timed_out_after_multiple_attempts"
    ELSE "failed_to_connect_after_multiple_attempts"

\* an off-by-one in the test: the last failure is retried too
may_retry_off_by_one(a) == a < max_retries

\* "if attempt < max_retries - 1": the failure is retried, not raised
may_retry(a) == a < max_retries - 1

\* an except handler of the outer try: show the message, return None
ReturnNone(h, m, s) ==
    /\ err' = Error(h, m, s)
    /\ returned' = "None"
    /\ rows' = <<>>
    /\ pc' = "done"

\* the except clauses without the last one, "except Exception"
except_clause_no_catch_all(c) ==
    IF c = "HTTPError" THEN "HTTPError"
    ELSE IF c \in {"Timeout", "ConnectionError", "RequestException"}
         THEN "RequestException"
    ELSE IF c = "ValueError" THEN "ValueError"
    ELSE "none"

\* lines 98-112: the first except clause of the outer try that catches an
\* exception of class c ("none" if no clause does); HTTPError, Timeout and
\* ConnectionError are subclasses of RequestException
except_clause(c) ==
    IF c = "HTTPError" THEN "HTTPError"
    ELSE IF c \in {"Timeout", "ConnectionError", "RequestException"}
         THEN "RequestException"
    ELSE IF c = "ValueError" THEN "ValueError"
    ELSE "Exception"

\* an exception of class c raised inside the outer try: the clause that
\* catches it returns None; with no such clause it leaves lincs_cp
Raise(c, m, s) ==
    IF except_clause(c) = "none"
    THEN /\ returned' = "raised"
         /\ rows' = <<>>
         /\ pc' = "done"
         /\ UNCHANGED err
    ELSE ReturnNone(except_clause(c), m, s)

\* lines 29-45: validate the arguments, set up the loop
Validate ==
    /\ pc = "call"
    /\ valid' = validate_gene_name(gene)
    /\ LET e == ArgumentError(gene, direction, top_n)
       IN  IF e # "none"
           THEN /\ Raise("ValueError", e, 0)
                /\ UNCHANGED <<attempt, retry_delay>>
           ELSE /\ attempt' = 0
                /\ retry_delay' = initial_retry_delay
                /\ pc' = "attempt"
                /\ UNCHANGED <<err, returned, rows>>
    /\ UNCHANGED <<gene, direction, top_n, fetches, waits, fails, retry_warnings,
                   events, resp, page>>

\* lines 47-65: one pass of the loop body up to the sleep
Fetch ==
    /\ pc = "attempt"
    /\ attempt < max_retries
    /\ fetches' = fetches + 1
    /\ \/ \E k \in {"Timeout", "ConnectionError"} :
            /\ events' = Append(events, "get_" \o k)
            /\ fails' = Append(fails, k)
            /\ IF may_retry(attempt)
               THEN /\ retry_warnings' = retry_warnings + 1
                    /\ pc' = "sleep"
                    /\ UNCHANGED <<err, returned, rows>>
               ELSE /\ Raise(k, exhausted_message(k), 0)
                    /\ UNCHANGED retry_warnings
            /\ UNCHANGED resp
       \/ \E h \in {"RequestException", "Exception"} :
            /\ events' = Append(events, "get_other_exception")
            /\ Raise(h, "other_exception", 0)
            /\ UNCHANGED <<fails, retry_warnings, resp>>
       \/ \E s \in Statuses :
            /\ events' = Append(events, "get_status")
            /\ IF raise_for_status(s)
               THEN /\ resp' = [status |-> s, body |-> JsonBody("unread")]
                    /\ Raise("HTTPError", http_error_message(s), s)
               ELSE /\ \E b \in (IF page.pc = "none" THEN Bodies ELSE PageBodies) :
                          resp' = [status |-> s, body |-> b]
                    /\ pc' = "process"
                    /\ UNCHANGED <<err, returned, rows>>
            /\ UNCHANGED <<fails, retry_warnings>>
    /\ UNCHANGED <<gene, direction, top_n, valid, attempt, retry_delay, waits, page>>

\* lines 55-56 and 62-63: time.sleep(retry_delay), double it, next attempt
Sleep ==
    /\ pc = "sleep"
    /\ waits' = Append(waits, retry_delay)
    /\ events' = Append(events, "sleep")
    /\ retry_delay' = next_retry_delay(retry_delay)
    /\ attempt' = attempt + 1
    /\ pc' = "attempt"
    /\ UNCHANGED <<gene, direction, top_n, valid, fetches, fails, retry_warnings,
                   resp, returned, rows, err, page>>

\* lines 67-96: decode the body, check it, coerce, sort, truncate, return
Process ==
    /\ pc = "process"
    /\ LET b == resp.body
       IN  \/ /\ b.json = "undecodable"
              /\ \E h \in {"RequestException", "ValueError"} :
                    Raise(h, "json_decode_error", 0)
           \/ /\ b.json # "undecodable"
              /\ NotData(b)
              /\ returned' = "DataFrame"
              /\ rows' = <<>>
              /\ pc' = "done"
              /\ UNCHANGED err
           \/ /\ b.json # "undecodable"
              /\ ~NotData(b)
              /\ ~IsList(b)
              /\ Raise("ValueError", "unexpected_data_format", 0)
           \/ /\ b.json # "undecodable"
              /\ ~NotData(b)
              /\ IsList(b)
              /\ ~HasCdColumn(b.data)
              /\ Raise("ValueError", "missing_required_columns", 0)
           \/ /\ b.json # "undecodable"
              /\ ~NotData(b)
              /\ IsList(b)
              /\ HasCdColumn(b.data)
              /\ \E df_sorted \in sort_values(Coerce(DataFrame(b.data))) :
                    rows' = head(df_sorted, top_n.v)
              /\ returned' = "DataFrame"
              /\ pc' = "done"
              /\ UNCHANGED err
    /\ UNCHANGED <<gene, direction, top_n, valid, attempt, retry_delay, fetches,
                   waits, fails, retry_warnings, events, resp, page>>

\* validate_gene_name applied on its own
ValidateGene ==
    /\ pc = "validate"
    /\ valid' = validate_gene_name(gene)
    /\ pc' = "validated"
    /\ UNCHANGED <<gene, direction, top_n, attempt, retry_delay, fetches, waits,
                   fails, retry_warnings, events, resp, returned, rows, err, page>>

Locals ==
    /\ valid = FALSE
    /\ attempt = 0
    /\ retry_delay = 0
    /\ fetches = 0
    /\ waits = <<>>
    /\ fails = <<>>
    /\ retry_warnings = 0
    /\ events = <<>>
    /\ resp = NoResp
    /\ returned = "pending"
    /\ rows = <<>>
    /\ err = NoErr

\* no page: lincs_cp or validate_gene_name is called on its own
NoPage ==
    [pc |-> "none", get_up |-> FALSE, get_down |-> FALSE, results |-> <<>>,
     calls |-> <<>>, message |-> "none"]

\* a call lincs_cp(gene, direction, top_n)
Init ==
    /\ gene \in GeneInputs
    /\ direction \in DirectionInputs
    /\ top_n \in TopNInputs
    /\ pc = "call"
    /\ Locals
    /\ page = NoPage

Next == Validate \/ Fetch \/ Sleep \/ Process

Spec == Init /\ [][Next]_vars

\* a call validate_gene_name(gene)
InitValidate ==
    /\ gene \in AllGenes
    /\ direction = "up"
    /\ top_n = IntTopN(1)
    /\ pc = "validate"
    /\ Locals
    /\ page = NoPage

NextValidate == ValidateGene

SpecValidate == InitValidate /\ [][NextValidate]_vars

----------------------------------------------------------------------------
(* The query handler of the page, lines 401-438 *)

\* st.text_input: "", " ", "TP53", " A", "TP53!", "-"
PageGeneInputs ==
    {StrGene(<<>>), StrGene(<<"SP">>), StrGene(<<"A", "7">>), StrGene(<<"SP", "A">>),
     StrGene(<<"A", "7", "!">>), StrGene(<<"-">>)}

\* st.number_input(min_value=10, max_value=10000): an int
PageTopNInputs == {IntTopN(10)}

\* the chain of tests of lines 402-407: the message shown, "none" if the
\* query goes ahead
PageInputError(g, up, down) ==
    IF Falsy(g) \/ Strip(g.s) = <<>> THEN "enter_gene_name"
    ELSE IF ~validate_gene_name(g) THEN "invalid_gene_name_format"
    ELSE IF ~up /\ ~down THEN "select_regulation_type"
    ELSE "none"

\* a test that forgets "not df.empty"
enters_results_not_none(ret, rws) == ret = "DataFrame"

\* "df is not None and not df.empty"
enters_results(ret, rws) == ret = "DataFrame" /\ rws # <<>>

\* what the page sees of a call of lincs_cp that has ended
CallRecord ==
    [direction |-> direction, fetches |-> fetches, waits |-> waits,
     returned |-> returned, rows |-> rows]

\* a call lincs_cp(gene_name, d, top_n): new locals
StartCall(d) ==
    /\ direction' = d
    /\ pc' = "call"
    /\ valid' = FALSE
    /\ attempt' = 0
    /\ retry_delay' = 0
    /\ fetches' = 0
    /\ waits' = <<>>
    /\ fails' = <<>>
    /\ retry_warnings' = 0
    /\ events' = <<>>
    /\ resp' = NoResp
    /\ returned' = "pending"
    /\ rows' = <<>>
    /\ err' = NoErr

CallUnchanged ==
    UNCHANGED <<direction, pc, valid, attempt, retry_delay, fetches, waits, fails,
                retry_warnings, events, resp, returned, rows, err>>

\* the call made at position p has ended: lines 420-424 and 430-434; an
\* exception leaving lincs_cp would go to the except clause of line 602
EndCall(d, next) ==
    /\ pc = "done"
    /\ page' = [page EXCEPT
                  !.calls = Append(@, CallRecord),
                  !.results = IF enters_results(returned, rows)
                              THEN [k \in DOMAIN @ \cup {d} |->
                                        IF k = d THEN rows ELSE @[k]]
                              ELSE @,
                  !.pc = IF returned = "raised" THEN "done" ELSE next]
    /\ CallUnchanged

\* lines 401-414: the tests of the inputs, results = {}
PageQuery ==
    /\ page.pc = "clicked"
    /\ LET m == PageInputError(gene, page.get_up, page.get_down)
       IN  page' = [page EXCEPT !.message = m,
                                !.results = <<>>,
                                !.pc = IF m = "none" THEN "up" ELSE "done"]
    /\ CallUnchanged
    /\ UNCHANGED <<gene, top_n>>

\* lines 417-419: if get_up, call lincs_cp(gene_name, "up", top_n)
PageUp ==
    /\ page.pc = "up"
    /\ IF page.get_up
       THEN /\ StartCall("up")
            /\ page' = [page EXCEPT !.pc = "up_call"]
       ELSE /\ page' = [page EXCEPT !.pc = "down"]
            /\ CallUnchanged
    /\ UNCHANGED <<gene, top_n>>

\* lines 420-424
PageUpReturn ==
    /\ page.pc = "up_call"
    /\ EndCall("up", "down")
    /\ UNCHANGED <<gene, top_n>>

\* lines 427-429: if get_down, call lincs_cp(gene_name, "down", top_n)
PageDown ==
    /\ page.pc = "down"
    /\ IF page.get_down
       THEN /\ StartCall("down")
            /\ page' = [page EXCEPT !.pc = "down_call"]
       ELSE /\ page' = [page EXCEPT !.pc = "done"]
            /\ CallUnchanged
    /\ UNCHANGED <<gene, top_n>>

\* lines 430-434
PageDownReturn ==
    /\ page.pc = "down_call"
    /\ EndCall("down", "done")
    /\ UNCHANGED <<gene, top_n>>

\* the button is clicked with the inputs of the sidebar
InitPage ==
    /\ gene \in PageGeneInputs
    /\ top_n \in PageTopNInputs
    /\ direction = "up"
    /\ pc = "idle"
    /\ Locals
    /\ \E up, down \in BOOLEAN :
          page = [pc |-> "clicked", get_up |-> up, get_down |-> down,
                  results |-> <<>>, calls |-> <<>>, message |-> "none"]

NextPage ==
    \/ PageQuery \/ PageUp \/ PageUpReturn \/ PageDown \/ PageDownReturn
    \/ Validate \/ Fetch \/ Sleep \/ Process

SpecPage == InitPage /\ [][NextPage]_vars

----------------------------------------------------------------------------
(* Claims about the retry loop and the argument checks *)

Is2xx(s) == 200 <= s /\ s < 300

Returned(k) == pc = "done" /\ returned = k

\* C1: an attempt that completes with a non-2xx status is the last thing the
\* call does on the network (no fetch and no sleep after it), and the call
\* ends with the HTTP error outcome carrying that status code.
C1_NonSuccessStatusEndsInHttpError ==
    /\ \A i \in 1..Len(events) : events[i] = "get_status" => i = Len(events)
    /\ (pc = "done" /\ resp # NoResp /\ ~Is2xx(resp.status))
         => /\ returned = "None"
            /\ err.handler = "HTTPError"
            /\ err.status = resp.status

\* at "process" the response is bound and the sort has an outcome, so that
\* Process can take its step
ProcessCanStep ==
    /\ pc = "process"
    /\ resp # NoResp
    /\ LET b == resp.body
       IN  (IsList(b) /\ HasCdColumn(b.data))
             => sort_values(Coerce(DataFrame(b.data))) # {}

\* the part of C1 the code does give: nothing follows a completed attempt,
\* and a 4xx or 5xx status ends in the HTTP error outcome with that status
StatusNotRetriedErrorStatusIsHttpError ==
    /\ \A i \in 1..Len(events) : events[i] = "get_status" => i = Len(events)
    /\ resp # NoResp => fetches = Len(fails) + 1 /\ Len(waits) = Len(fails)
    /\ (pc = "done" /\ resp # NoResp /\ raise_for_status(resp.status))
         => /\ returned = "None"
            /\ err.handler = "HTTPError"
            /\ err.status = resp.status

\* C2: a call makes at most 3 fetch attempts and after the 3rd attempt there
\* is no further attempt or wait; the call cannot get stuck before its
\* terminal outcome (a step is enabled until it has returned) and it cannot
\* run forever (every step but the first and the last adds an event, and
\* there are at most 3 fetches and 2 sleeps); at the end it has returned
\* None (failure) or a DataFrame (success).
C2_AtMostThreeAttemptsThenTerminal ==
    /\ fetches <= 3
    /\ fetches = 3 => pc \in {"process", "done"}
    /\ Len(events) = fetches + Len(waits)
    /\ Len(waits) <= 2
    /\ pc = "done" \/ ENABLED (Validate \/ Fetch \/ Sleep) \/ ProcessCanStep
    /\ pc = "done" <=> returned \in {"None", "DataFrame"}

C2_Witness == pc = "done" /\ fetches = 3 /\ returned = "DataFrame" /\ rows # <<>>

\* C3: the waits are 2 after the 1st failed attempt and 4 after the 2nd,
\* whatever kinds of failure caused them, one wait and one retry event per
\* retried failure; timeouts on attempts 1 and 2 and success on attempt 3
\* give a success with two retry events and the waits 2, 4.
C3_BackoffStartsAtTwoAndDoubles ==
    /\ Len(waits) >= 1 => waits[1] = 2
    /\ Len(waits) >= 2 => waits[2] = 4
    /\ \A i \in 2..Len(waits) : waits[i] = 2 * waits[i - 1]
    /\ Len(waits) <= Len(fails) /\ Len(fails) <= Len(waits) + 1
    /\ pc \in {"attempt", "process"} => Len(waits) = Len(fails)
    /\ pc \in {"attempt", "process"} => retry_warnings = Len(fails)
    /\ (Returned("DataFrame") /\ fails = <<"Timeout", "Timeout">>)
         => retry_warnings = 2 /\ waits = <<2, 4>> /\ fetches = 3

C3_Witness ==
    /\ Returned("DataFrame")
    /\ rows # <<>>
    /\ fails = <<"Timeout", "Timeout">>
    /\ waits = <<2, 4>>
    /\ retry_warnings = 2

C3_WitnessMixed ==
    Returned("DataFrame") /\ fails = <<"ConnectionError", "Timeout">> /\ waits = <<2, 4>>

Exhausted == pc = "done" /\ Len(fails) = max_retries

\* C4 as claimed: after exhaustion the outcome is Timeout or ConnectionFailure,
\* a Timeout outcome means every attempt timed out and a ConnectionFailure
\* outcome means every attempt failed to connect.
C4_KindMeansAllAttempts ==
    /\ Exhausted => err.msg \in {"timed_out_after_multiple_attempts",
                                 "failed_to_connect_after_multiple_attempts"}
    /\ (pc = "done" /\ err.msg = "timed_out_after_multiple_attempts")
         => \A i \in 1..Len(fails) : fails[i] = "Timeout"
    /\ (pc = "done" /\ err.msg = "failed_to_connect_after_multiple_attempts")
         => \A i \in 1..Len(fails) : fails[i] = "ConnectionError"

\* C4 amended: after exhaustion the call returns None with a Timeout or a
\* ConnectionFailure message, and the kind is the kind of the last (3rd)
\* failure: Timeout iff the 3rd attempt timed out, ConnectionFailure iff the
\* 3rd attempt failed to connect, whatever the first two failures were; the
\* two messages appear only after 3 retryable failures.
C4_KindIsKindOfLastFailure ==
    /\ Exhausted =>
         /\ returned = "None"
         /\ err.handler = "RequestException"
         /\ (err.msg = "timed_out_after_multiple_attempts")
              <=> (fails[max_retries] = "Timeout")
         /\ (err.msg = "failed_to_connect_after_multiple_attempts")
              <=> (fails[max_retries] = "ConnectionError")
    /\ (pc = "done" /\ err.msg \in {"timed_out_after_multiple_attempts",
                                    "failed_to_connect_after_multiple_attempts"})
         => Len(fails) = max_retries /\ fetches = max_retries

C4_Witness ==
    /\ pc = "done"
    /\ fails = <<"ConnectionError", "ConnectionError", "Timeout">>
    /\ err.msg = "timed_out_after_multiple_attempts"
    /\ returned = "None"

\* the preconditions of lincs_cp
PreconditionViolated ==
    \/ ~validate_gene_name(gene)
    \/ direction \notin {"up", "down"}
    \/ ~(top_n.isInt /\ top_n.v > 0)

\* C5: with a violated precondition the call makes no fetch attempt and no
\* wait, and it returns an error outcome (the ValueError handler's).
C5_InvalidArgumentBeforeNetwork ==
    PreconditionViolated =>
        /\ fetches = 0 /\ waits = <<>> /\ events = <<>> /\ resp = NoResp
        /\ pc \in {"call", "done"}
        /\ pc = "done" => /\ returned = "None"
                          /\ err.handler = "ValueError"
                          /\ err.msg \in {"invalid_gene_name", "invalid_direction",
                                          "invalid_top_n"}

\* gene 'TP53!'
C5_Witness ==
    /\ gene = StrGene(<<"A", "7", "!">>)
    /\ direction = "up"
    /\ top_n = IntTopN(5)
    /\ Returned("None")
    /\ err = Error("ValueError", "invalid_gene_name", 0)
    /\ fetches = 0

C5_WitnessTopN ==
    /\ validate_gene_name(gene) /\ direction = "down" /\ top_n = IntTopN(0)
    /\ Returned("None") /\ fetches = 0

----------------------------------------------------------------------------
(* Claims about validate_gene_name *)

IsGeneChar(c) == IsAlnumChar(c) \/ c \in {"-", "_"}

\* the contract: a string that, trimmed, is non-empty and made only of
\* alphanumeric characters, hyphens and underscores
TrimmedNonEmptyGeneChars(g) ==
    /\ g.type = "str"
    /\ LET t == Strip(g.s)
       IN  Len(t) > 0 /\ \A i \in 1..Len(t) : IsGeneChar(t[i])

\* C6: validate_gene_name(raw) is true iff the trimmed string is non-empty
\* and consists only of alphanumeric characters, hyphens and underscores
\* (so it is true for '-' and '__').
C6_TrueIffTrimmedNonEmptyGeneChars ==
    pc = "validated" => (valid <=> TrimmedNonEmptyGeneChars(gene))

\* C7 as claimed: a string with a character outside [A-Za-z0-9_-] anywhere
\* (a leading or trailing space and a non-ASCII letter included) is rejected.
C7_AnyCharOutsideAsciiClassRejected ==
    (pc = "validated" /\ gene.type = "str"
        /\ \E i \in 1..Len(gene.s) : ~IsAsciiGeneChar(gene.s[i]))
      => valid = FALSE

\* C7 amended: a string that, with its leading and trailing whitespace
\* removed, still has a character that is neither alphanumeric (in the sense
\* of str.isalnum, non-ASCII letters and digits included) nor a hyphen nor an
\* underscore is rejected; so are None, non-strings and strings of
\* whitespace only.
C7_CharOutsideClassAfterTrimRejected ==
    (pc = "validated"
        /\ \/ gene.type # "str"
           \/ Strip(gene.s) = <<>>
           \/ \E i \in 1..Len(Strip(gene.s)) : ~IsGeneChar(Strip(gene.s)[i]))
      => valid = FALSE

\* 'A A': an inner space
C7_Witness == pc = "validated" /\ gene = StrGene(<<"A", "SP", "A">>) /\ valid = FALSE

----------------------------------------------------------------------------
(* Claims about the returned table *)

\* a 2xx response with a non-empty list of records having the column, and
\* the call has returned its table
SuccessfulCall ==
    /\ Returned("DataFrame")
    /\ Is2xx(resp.status)
    /\ IsList(resp.body)
    /\ resp.body.data # <<>>
    /\ HasCdColumn(resp.body.data)

SortedDescendingMissingLast(rs) ==
    \A i, j \in 1..Len(rs) :
        i < j => /\ rs[i].cd.nan => rs[j].cd.nan
                 /\ (~rs[i].cd.nan /\ ~rs[j].cd.nan) => rs[i].cd.v >= rs[j].cd.v

\* every returned row is a record of the body, returned once, with its value
RowsOfBody(rs, data) ==
    /\ \A i \in 1..Len(rs) :
          /\ rs[i].id \in 1..Len(data)
          /\ rs[i].cd = to_numeric(data[rs[i].id].cd)
    /\ \A i, j \in 1..Len(rs) : i # j => rs[i].id # rs[j].id

\* a record left out is no stronger than any record kept
KeptAreTop(rs, data) ==
    \A k \in 1..Len(data) :
        (\A i \in 1..Len(rs) : rs[i].id # k) =>
            \A i \in 1..Len(rs) :
                \/ to_numeric(data[k].cd).nan
                \/ ~rs[i].cd.nan /\ rs[i].cd.v >= to_numeric(data[k].cd).v

\* C8: the rows of a successful call are sorted non-increasing by CD
\* Coefficient with the missing values last, are at most top_n rows of the
\* body, the strongest ones; the values 0.1, 0.9, -0.2, 0.5, 0.3, 0.7,
\* missing, 0.05 with limit 5 give 0.9, 0.7, 0.5, 0.3, 0.1.
C8_SortedDescendingTruncated ==
    SuccessfulCall =>
        /\ SortedDescendingMissingLast(rows)
        /\ Len(rows) <= top_n.v
        /\ RowsOfBody(rows, resp.body.data)
        /\ KeptAreTop(rows, resp.body.data)
        /\ (resp.body.data = ScenarioData /\ top_n = IntTopN(5))
             => [i \in 1..Len(rows) |-> rows[i].cd.v] = <<90, 70, 50, 30, 10>>

C8_Witness ==
    /\ SuccessfulCall
    /\ resp.body.data = ScenarioData
    /\ top_n = IntTopN(5)
    /\ [i \in 1..Len(rows) |-> rows[i].id] = <<2, 6, 4, 5, 1>>

C8_WitnessMissingLast ==
    /\ SuccessfulCall
    /\ resp.body.data = <<CdRecord(Bad), CdRecord(Num(1)), CdRecord(Num(2))>>
    /\ [i \in 1..Len(rows) |-> rows[i].id] = <<3, 2, 1>>

\* C9: the sort is stable: rows with equal CD Coefficient, and rows whose CD
\* Coefficient is missing, come in arrival order, and of several tied records
\* the ones that arrived first survive the truncation.
C9_StableAmongEquals ==
    SuccessfulCall =>
        /\ \A i, j \in 1..Len(rows) :
              (i < j /\ rows[i].cd = rows[j].cd) => rows[i].id < rows[j].id
        /\ \A k \in 1..Len(resp.body.data) :
              (\A i \in 1..Len(rows) : rows[i].id # k) =>
                  \A i \in 1..Len(rows) :
                      rows[i].cd = to_numeric(resp.body.data[k].cd) => rows[i].id < k

\* the part of C9 the code does give: missing values keep arrival order
MissingKeepArrivalOrder ==
    SuccessfulCall =>
        \A i, j \in 1..Len(rows) :
            (i < j /\ rows[i].cd.nan /\ rows[j].cd.nan) => rows[i].id < rows[j].id

\* C10: a 2xx body that decodes to something that is no list (an object, the
\* empty object, null, a number, a string, a boolean) gives the malformed
\* response error, never a table.
C10_NonListIsMalformedResponse ==
    (pc = "done" /\ Is2xx(resp.status)
        /\ resp.body.json \in FalsyNonList \cup TruthyNonList)
      => /\ returned = "None"
         /\ err = Error("ValueError", "unexpected_data_format", 0)

\* the part of C10 the code does give: truthy non-lists are rejected
TruthyNonListIsMalformedResponse ==
    (pc = "done" /\ Is2xx(resp.status) /\ resp.body.json \in TruthyNonList)
      => /\ returned = "None"
         /\ err = Error("ValueError", "unexpected_data_format", 0)

----------------------------------------------------------------------------
(* Claims about the outcomes of a call *)

\* the response decoded to the empty list [] and the call has returned
EmptyListCall ==
    pc = "done" /\ Is2xx(resp.status) /\ resp.body = ListBody(<<>>)

\* C11: a 2xx response that decodes to [] gives a success with an empty row
\* set: an empty table and no error message, where every error outcome is
\* None with an error message; the attempt that brought it is the last one.
C11_EmptyListIsEmptySuccess ==
    /\ EmptyListCall =>
          /\ returned = "DataFrame"
          /\ rows = <<>>
          /\ err = NoErr
          /\ events[Len(events)] = "get_status"
          /\ fetches = Len(fails) + 1
          /\ Len(waits) = Len(fails)
    /\ pc = "done" => (returned = "None" <=> err # NoErr)
    /\ pc = "done" => returned \in {"None", "DataFrame"}

C11_Witness ==
    /\ EmptyListCall
    /\ resp.status = 200
    /\ returned = "DataFrame"
    /\ rows = <<>>
    /\ fetches = 1

\* C12: the HTTP error outcome has the 'gene not found' message for 404, the
\* 'server error' message for every 5xx status and the generic message with
\* the status code for every other status.
C12_MessageByStatusClass ==
    (pc = "done" /\ err.handler = "HTTPError") =>
        err.msg = IF err.status = 404 THEN "gene_not_found"
                  ELSE IF 500 <= err.status /\ err.status < 600 THEN "server_error"
                  ELSE "http_error_with_code"

\* the part of C12 the code does give: 404, 500 and the statuses below 500
MessageByStatusBut5xx ==
    (pc = "done" /\ err.handler = "HTTPError" /\ err.status <= 500) =>
        err.msg = IF err.status = 404 THEN "gene_not_found"
                  ELSE IF err.status = 500 THEN "server_error"
                  ELSE "http_error_with_code"

\* C13: whatever the arguments and the outcomes of the attempts, the call
\* ends by returning None or a table, never by raising; each of the faults
\* (invalid argument, exhausted timeouts or connection failures, an error
\* status, any other exception of requests.get, an undecodable or non-list
\* body, a list without the required column) ends in None with a message.
C13_EveryFaultIsReturned ==
    /\ returned # "raised"
    /\ pc = "done" => returned \in {"None", "DataFrame"}
    /\ pc = "done" =>
          /\ PreconditionViolated => returned = "None" /\ err.handler = "ValueError"
          /\ Len(fails) = max_retries =>
                returned = "None" /\ err.handler = "RequestException"
          /\ "get_other_exception" \in {events[i] : i \in 1..Len(events)} =>
                returned = "None" /\ err.handler \in {"RequestException", "Exception"}
          /\ (resp # NoResp /\ raise_for_status(resp.status)) =>
                returned = "None" /\ err.handler = "HTTPError"
          /\ (resp # NoResp /\ ~raise_for_status(resp.status)) =>
                /\ resp.body.json = "undecodable" =>
                      returned = "None" /\ err.msg = "json_decode_error"
                /\ resp.body.json \in TruthyNonList =>
                      returned = "None" /\ err.handler = "ValueError"
                /\ (IsList(resp.body) /\ resp.body.data # <<>>
                        /\ ~HasCdColumn(resp.body.data)) =>
                      returned = "None" /\ err.msg = "missing_required_columns"

\* an exception only the last clause catches
C13_Witness ==
    /\ pc = "done"
    /\ returned = "None"
    /\ err = Error("Exception", "other_exception", 0)
    /\ fetches = 2

----------------------------------------------------------------------------
(* Claims about the order of attempts and waits *)

IsGet(e) == e # "sleep"

RECURSIVE SumSeq(_)
SumSeq(s) == IF s = <<>> THEN 0 ELSE Head(s) + SumSeq(Tail(s))

\* C15: a call that made an attempt and has ended made one wait less than
\* attempts; a wait comes only directly after a timeout or a connection
\* failure of attempt 1 or 2 and is directly followed by the next attempt
\* (no wait follows the final attempt), no two attempts follow each other
\* without a wait, and the waits of one call add up to at most 6.
C15_WaitsBetweenAttemptsOnly ==
    /\ (pc = "done" /\ fetches > 0) => Len(waits) = fetches - 1
    /\ pc \in {"process", "done"} =>
          (events = <<>> \/ IsGet(events[Len(events)]))
    /\ \A i \in 1..Len(events) :
          /\ events[i] = "sleep" =>
                /\ i > 1
                /\ events[i - 1] \in {"get_Timeout", "get_ConnectionError"}
                /\ i \in {2, 4}
          /\ (IsGet(events[i]) /\ i < Len(events)) =>
                /\ events[i] \in {"get_Timeout", "get_ConnectionError"}
                /\ events[i + 1] = "sleep"
    /\ Cardinality({i \in 1..Len(events) : events[i] = "sleep"}) = Len(waits)
    /\ Cardinality({i \in 1..Len(events) : IsGet(events[i])}) = fetches
    /\ SumSeq(waits) <= 6

\* three attempts, two waits, six units waited, ended by exhaustion
C15_Witness ==
    /\ pc = "done"
    /\ events = <<"get_Timeout", "sleep", "get_ConnectionError", "sleep", "get_Timeout">>
    /\ waits = <<2, 4>>
    /\ fetches = 3

C15_WitnessResponse ==
    /\ pc = "done"
    /\ events = <<"get_ConnectionError", "sleep", "get_status">>
    /\ waits = <<2>>
    /\ fetches = 2

----------------------------------------------------------------------------
(* Claims about the coercion of the numeric columns *)

NumericKeys == {"cd", "fc", "l2"}

Coercible(c) == c.kind \in {"num", "numstr"}

\* the key is in the schema of the payload: some record has it
InSchema(data, col) == \E k \in 1..Len(data) : data[k][col].kind # "absent"

MinOf(a, b) == IF a < b THEN a ELSE b

\* a 2xx response with a non-empty list of records, and the call has ended
RecordsCall ==
    /\ pc = "done"
    /\ Is2xx(resp.status)
    /\ IsList(resp.body)
    /\ resp.body.data # <<>>

\* C14: with the CD Coefficient column in the schema the call succeeds
\* whatever values are non-numeric, with exactly min(n, top_n) rows, each a
\* record of the body kept once, and in every numeric column of the schema
\* a coercible value is its number and any other value is the missing-value
\* marker of that row and field alone; only a payload without the CD
\* Coefficient column fails, as a whole.
C14_CoercionKeepsEveryRow ==
    RecordsCall =>
        LET data == resp.body.data
        IN  IF InSchema(data, "cd")
            THEN /\ returned = "DataFrame"
                 /\ err = NoErr
                 /\ Len(rows) = MinOf(Len(data), top_n.v)
                 /\ \A i, j \in 1..Len(rows) : i # j => rows[i].id # rows[j].id
                 /\ \A i \in 1..Len(rows) :
                       /\ rows[i].id \in 1..Len(data)
                       /\ \A col \in NumericKeys :
                             LET raw == data[rows[i].id][col]
                             IN  IF ~InSchema(data, col) THEN rows[i][col] = raw
                                 ELSE IF Coercible(raw)
                                      THEN rows[i][col] = [nan |-> FALSE, v |-> raw.v]
                                      ELSE rows[i][col].nan
            ELSE /\ returned = "None"
                 /\ err = Error("ValueError", "missing_required_columns", 0)

\* two records, each with non-numeric values in other fields, both kept
C14_Witness ==
    /\ RecordsCall
    /\ resp.body.data = <<Record(Bad, Num(3), Bad), Record(Num(1), Bad, NumStr(4))>>
    /\ top_n = IntTopN(5)
    /\ returned = "DataFrame"
    /\ [i \in 1..Len(rows) |-> rows[i].id] = <<2, 1>>
    /\ rows[2].cd.nan /\ ~rows[2].fc.nan /\ rows[2].l2.nan
    /\ ~rows[1].cd.nan /\ rows[1].fc.nan /\ ~rows[1].l2.nan

----------------------------------------------------------------------------
(* C16 *)

\* the call of direction d the page has made and seen end, <<>> if none
CallsOf(d) == SelectSeq(page.calls, LAMBDA c : c.direction = d)

\* a call of lincs_cp is running for the page
InCall == page.pc \in {"up_call", "down_call"}

IsPrefix(s, q) == Len(s) <= Len(q) /\ \A i \in 1..Len(s) : s[i] = q[i]

\* C16: in the page's query flow the "up" call has ended before the "down"
\* call starts; the "down" call is made whatever the "up" call returned (None,
\* an empty table or rows); each call starts with attempt 0 and a delay of 2
\* and waits 2 then 4 at most; a direction is in results exactly when its call
\* returned a table with at least one row, with that table as its value; and
\* when the gene name is empty or invalid or no direction is selected the page
\* shows a message and makes no call and no GET at all.
C16_PageCallsInOrderAndIsolated ==
    /\ page.pc = "down_call" /\ page.get_up
           => /\ Len(page.calls) = 1
              /\ page.calls[1].direction = "up"
              /\ page.calls[1].returned \in {"None", "DataFrame"}
    /\ page.pc = "done" /\ page.message = "none"
           => /\ [i \in 1..Len(page.calls) |-> page.calls[i].direction]
                     = (IF page.get_up THEN <<"up">> ELSE <<>>)
                           \o (IF page.get_down THEN <<"down">> ELSE <<>>)
              /\ \A d \in {"up", "down"} :
                     /\ d \in DOMAIN page.results
                            <=> /\ CallsOf(d) # <<>>
                                /\ CallsOf(d)[1].returned = "DataFrame"
                                /\ CallsOf(d)[1].rows # <<>>
                     /\ d \in DOMAIN page.results
                            => page.results[d] = CallsOf(d)[1].rows
    /\ InCall /\ pc = "attempt" /\ fetches = 0
           => attempt = 0 /\ retry_delay = initial_retry_delay /\ waits = <<>>
    /\ \A i \in 1..Len(page.calls) :
           /\ IsPrefix(page.calls[i].waits, <<2, 4>>)
           /\ page.calls[i].fetches = Len(page.calls[i].waits) + 1
    /\ PageInputError(gene, page.get_up, page.get_down) # "none"
           => /\ pc = "idle" /\ fetches = 0 /\ events = <<>>
              /\ page.calls = <<>> /\ page.results = <<>>
              /\ page.pc \in {"clicked", "done"}
              /\ page.pc = "done"
                     => page.message = PageInputError(gene, page.get_up, page.get_down)

\* both directions selected; the "up" call used all three attempts and
\* returned None, the "down" call then waited 2 once and returned rows, and
\* only "down" is in results
C16_Witness ==
    /\ page.pc = "done" /\ page.get_up /\ page.get_down
    /\ Len(page.calls) = 2
    /\ page.calls[1].returned = "None" /\ page.calls[1].waits = <<2, 4>>
    /\ page.calls[2].returned = "DataFrame" /\ page.calls[2].waits = <<2>>
    /\ page.calls[2].rows # <<>>
    /\ DOMAIN page.results = {"down"}

\* the "up" call returned an empty table: "up" is not in results and the
\* "down" call is made all the same
C16_WitnessEmptyUp ==
    /\ page.pc = "down_call" /\ pc = "attempt" /\ fetches = 0
    /\ Len(page.calls) = 1
    /\ page.calls[1].returned = "DataFrame" /\ page.calls[1].rows = <<>>
    /\ page.calls[1].waits = <<2, 4>>
    /\ page.results = <<>>

\* an invalid gene name: the message, and no call
C16_WitnessNoCall ==
    /\ page.pc = "done" /\ page.message = "invalid_gene_name_format"
    /\ page.get_up /\ page.get_down /\ page.calls = <<>>

============================================================================
